---- MODULE Spec2Model ----
(***************************************************************************)
(* Model of the schema retrieval pipeline of wren-ai-service                *)
(* (src/pipelines/retrieval/db_schema_retrieval.py).  One request runs the  *)
(* Hamilton nodes embedding -> table_retrieval -> dbschema_retrieval ->     *)
(* construct_db_schemas -> check_using_db_schemas_without_pruning ->        *)
(* prompt -> filter_columns_in_tables -> construct_retrieval_results, each  *)
(* node one action.  Python dicts are records, lists are sequences, a DDL   *)
(* string is the record of the parts the f-string puts together.            *)
(***************************************************************************)
EXTENDS Integers, Sequences, FiniteSets, TLC

\* Longest document list the schema store returns in one reply.
MaxFrags == 4

----------------------------------------------------------------------------
(* Documents of the schema store *)

Col(n, dt, calc, js) ==
    [name |-> n, data_type |-> dt, comment |-> "",
     is_calculated |-> calc, is_json_field |-> js]

\* A stored Document: meta["name"] and the content that ast.literal_eval
\* decodes (decodable = FALSE: literal_eval raises on it).  The indexing side
\* writes the same name into meta and into the content.
Doc(n, ty, cm, cols, st, ok) ==
    [name |-> n, decodable |-> ok, type |-> ty, comment |-> cm,
     columns |-> cols, statement |-> st]

T1 == Doc("t1", "TABLE", "", <<>>, "", TRUE)
C1x == Doc("t1", "TABLE_COLUMNS", "",
           <<Col("id", "integer", FALSE, FALSE), Col("amt", "UNKNOWN", FALSE, FALSE)>>,
           "", TRUE)
C1y == Doc("t1", "TABLE_COLUMNS", "", <<Col("j", "json", FALSE, TRUE)>>, "", TRUE)
T2a == Doc("t2", "TABLE", "-- a", <<>>, "", TRUE)
T2b == Doc("t2", "TABLE", "-- b", <<>>, "", TRUE)
C2 == Doc("t2", "TABLE_COLUMNS", "", <<Col("c", "integer", TRUE, FALSE)>>, "", TRUE)
M1 == Doc("m1", "METRIC", "",
          <<Col("rev", "integer", FALSE, FALSE), Col("x", "Unknown", FALSE, FALSE)>>,
          "", TRUE)
M1b == Doc("m1", "METRIC", "-- b", <<Col("rev", "integer", FALSE, FALSE)>>, "", TRUE)
V1 == Doc("v1", "VIEW", "", <<>>, "SELECT 1", TRUE)
Bad == Doc("bad", "", "", <<>>, "", FALSE)

Fragments == {T1, C1x, C1y, T2a, T2b, C2, M1, M1b, V1, Bad}

\* str.lower() on the data types that occur.
Lower(s) ==
    CASE s = "UNKNOWN" -> "unknown"
      [] s = "Unknown" -> "unknown"
      [] OTHER -> s

Range(s) == {s[i] : i \in DOMAIN s}

\* The sequences without repetition over S, of length at most n.
RECURSIVE InjSeqs(_, _)
InjSeqs(S, n) ==
    IF n = 0 THEN {<<>>}
    ELSE LET shorter == InjSeqs(S, n - 1)
         IN shorter \cup
            UNION {{Append(s, x) : x \in S \ Range(s)} :
                       s \in {t \in shorter : Len(t) = n - 1}}

----------------------------------------------------------------------------
(* construct_db_schemas *)

\* One value of the db_schemas dict, with the key it is stored under.  has_type
\* and has_columns say whether the dict holds a "type" / "columns" key.
Entry(k, ht, cm, hc, cols) ==
    [key |-> k, has_type |-> ht, comment |-> cm, has_columns |-> hc, columns |-> cols]

KeyIndex(db, k) ==
    IF \E i \in DOMAIN db : db[i].key = k
    THEN CHOOSE i \in DOMAIN db : db[i].key = k
    ELSE 0

\* A merge that moves the entry of a TABLE document to the end of the dict.
MergeTableReinserting(db, doc) ==
    LET i == KeyIndex(db, doc.name)
        IsOther(e) == e.key # doc.name
    IN IF i = 0
       THEN Append(db, Entry(doc.name, TRUE, doc.comment, FALSE, <<>>))
       ELSE Append(SelectSeq(db, IsOther),
                   Entry(doc.name, TRUE, doc.comment, TRUE,
                         IF db[i].has_columns THEN db[i].columns ELSE <<>>))

\* A TABLE document: the content itself when the name is new, otherwise the
\* content with "columns" set to the columns held so far, [] when none.
MergeTable(db, doc) ==
    LET i == KeyIndex(db, doc.name)
    IN IF i = 0
       THEN Append(db, Entry(doc.name, TRUE, doc.comment, FALSE, <<>>))
       ELSE [db EXCEPT ![i] =
                Entry(doc.name, TRUE, doc.comment, TRUE,
                      IF db[i].has_columns THEN db[i].columns ELSE <<>>)]

\* A merge that lets a later TABLE_COLUMNS document replace the columns held.
MergeTableColumnsReplacing(db, doc) ==
    LET i == KeyIndex(db, doc.name)
    IN IF i = 0
       THEN Append(db, Entry(doc.name, FALSE, "", TRUE, doc.columns))
       ELSE [db EXCEPT ![i].has_columns = TRUE, ![i].columns = doc.columns]

\* A TABLE_COLUMNS document: a new entry holding only "columns", or the
\* columns attached to / appended to the entry of that name.
MergeTableColumns(db, doc) ==
    LET i == KeyIndex(db, doc.name)
    IN IF i = 0
       THEN Append(db, Entry(doc.name, FALSE, "", TRUE, doc.columns))
       ELSE IF ~db[i].has_columns
            THEN [db EXCEPT ![i].has_columns = TRUE, ![i].columns = doc.columns]
            ELSE [db EXCEPT ![i].columns = db[i].columns \o doc.columns]

\* The loop of construct_db_schemas over the documents, in order.
RECURSIVE MergeAll(_, _)
MergeAll(db, docs) ==
    IF docs = <<>> THEN db
    ELSE LET doc == Head(docs)
             next == CASE doc.type = "TABLE" -> MergeTable(db, doc)
                       [] doc.type = "TABLE_COLUMNS" -> MergeTableColumns(db, doc)
                       [] OTHER -> db
         IN MergeAll(next, Tail(docs))

\* "remove incomplete schemas": keep the entries with "type" and "columns".
IsComplete(e) == e.has_type /\ e.has_columns

Descriptor(e) ==
    [type |-> "TABLE", name |-> e.key, comment |-> e.comment, columns |-> e.columns]

RECURSIVE MapDescriptor(_)
MapDescriptor(es) ==
    IF es = <<>> THEN <<>> ELSE <<Descriptor(Head(es))>> \o MapDescriptor(Tail(es))

\* construct_db_schemas on documents that all decode.
ConstructDbSchemas(docs) ==
    MapDescriptor(SelectSeq(MergeAll(<<>>, docs), IsComplete))

\* A decoder that skips what it cannot decode.
AllDecodableLenient(docs) == TRUE

AllDecodable(docs) == \A i \in DOMAIN docs : docs[i].decodable

----------------------------------------------------------------------------
(* DDL builders *)

\* get_engine_supported_data_type: the data-type normalization map.
GetEngineSupportedDataType(dt) ==
    CASE dt = "integer" -> "INTEGER"
      [] dt = "json" -> "JSON"
      [] OTHER -> dt

ColumnLine(c) ==
    [comment |-> c.comment, name |-> c.name,
     engine_type |-> GetEngineSupportedDataType(c.data_type)]

RECURSIVE MapColumnLine(_)
MapColumnLine(cs) ==
    IF cs = <<>> THEN <<>> ELSE <<ColumnLine(Head(cs))>> \o MapColumnLine(Tail(cs))

Ddl(hd, cm, n, ls, st) ==
    [head |-> hd, comment |-> cm, name |-> n, lines |-> ls, statement |-> st]

IsKnownType(c) == Lower(c.data_type) # "unknown"

\* A metric DDL that compares data_type with "unknown" without lower().
BuildMetricDdlCaseSensitive(content) ==
    LET IsNotUnknown(c) == c.data_type # "unknown"
    IN Ddl("CREATE TABLE", content.comment, content.name,
           MapColumnLine(SelectSeq(content.columns, IsNotUnknown)), "")

\* _build_metric_ddl: CREATE TABLE over the columns whose data_type is not
\* "unknown" in any letter case.
BuildMetricDdl(content) ==
    Ddl("CREATE TABLE", content.comment, content.name,
        MapColumnLine(SelectSeq(content.columns, IsKnownType)), "")

\* _build_view_ddl: CREATE VIEW <name> AS <statement>.
BuildViewDdl(content) ==
    Ddl("CREATE VIEW", content.comment, content.name, <<>>, content.statement)

\* The optional columns= argument of build_table_ddl.
NoColumns == [given |-> FALSE, names |-> {}]
Columns(S) == [given |-> TRUE, names |-> S]

\* build_table_ddl: "unknown" columns are never emitted; with a selection only
\* the columns named in it are; the flags report the emitted columns.
BuildTableDdl(content, columns, tables) ==
    LET Emitted(c) == /\ IsKnownType(c)
                      /\ (columns.given => c.name \in columns.names)
        cols == SelectSeq(content.columns, Emitted)
    IN [ddl |-> Ddl("CREATE TABLE", content.comment, content.name,
                    MapColumnLine(cols), ""),
        has_calculated_field |-> \E i \in DOMAIN cols : cols[i].is_calculated,
        has_json_field |-> \E i \in DOMAIN cols : cols[i].is_json_field]

\* len(encoding.encode(" ".join(table_ddls))): a DDL statement is its three
\* fixed tokens and one per column line; the empty string has none.
RECURSIVE TokenCount(_)
TokenCount(ddls) ==
    IF ddls = <<>> THEN 0
    ELSE 3 + Len(Head(ddls).lines) + TokenCount(Tail(ddls))

----------------------------------------------------------------------------
(* check_using_db_schemas_without_pruning *)

Result(n, ddl) == [table_name |-> n, table_ddl |-> ddl]

\* The first loop: one result per reassembled TABLE, built without a selection.
RECURSIVE UnprunedTableResults(_)
UnprunedTableResults(schemas) ==
    IF schemas = <<>> THEN <<>>
    ELSE LET table_schema == Head(schemas)
         IN (IF table_schema.type = "TABLE"
             THEN <<Result(table_schema.name,
                           BuildTableDdl(table_schema, NoColumns, NoColumns).ddl)>>
             ELSE <<>>)
            \o UnprunedTableResults(Tail(schemas))

\* The document loop: one result per METRIC and per VIEW document among docs
\* whose name passes the filter keep.
RECURSIVE MetricViewResults(_, _)
MetricViewResults(docs, keep) ==
    IF docs = <<>> THEN <<>>
    ELSE LET content == Head(docs)
         IN (CASE content.name \in keep /\ content.type = "METRIC" ->
                    <<Result(content.name, BuildMetricDdl(content))>>
               [] content.name \in keep /\ content.type = "VIEW" ->
                    <<Result(content.name, BuildViewDdl(content))>>
               [] OTHER -> <<>>)
            \o MetricViewResults(Tail(docs), keep)

DocNames(docs) == {docs[i].name : i \in DOMAIN docs}

RECURSIVE MapTableDdl(_)
MapTableDdl(results) ==
    IF results = <<>> THEN <<>>
    ELSE <<Head(results).table_ddl>> \o MapTableDdl(Tail(results))

\* A budget rule that already prunes at the limit.
PruningRequiredAtLimit(token_count, enable, window) == token_count >= window \/ enable

\* _token_count > context_window_size or enable_column_pruning
PruningRequired(token_count, enable, window) == token_count > window \/ enable

CheckUsingDbSchemasWithoutPruning(schemas, docs, enable, window) ==
    LET retrieval_results ==
            UnprunedTableResults(schemas) \o MetricViewResults(docs, DocNames(docs))
        token_count == TokenCount(MapTableDdl(retrieval_results))
    IN [db_schemas |-> IF PruningRequired(token_count, enable, window)
                       THEN <<>> ELSE retrieval_results,
        tokens |-> token_count,
        has_calculated_field |->
            \E i \in DOMAIN schemas :
                /\ schemas[i].type = "TABLE"
                /\ BuildTableDdl(schemas[i], NoColumns, NoColumns).has_calculated_field,
        has_metric |-> \E i \in DOMAIN docs : docs[i].type = "METRIC",
        has_json_field |->
            \E i \in DOMAIN schemas :
                /\ schemas[i].type = "TABLE"
                /\ BuildTableDdl(schemas[i], NoColumns, NoColumns).has_json_field]

----------------------------------------------------------------------------
(* prompt *)

\* "\n".join(previous_query_summaries) + "\n" + query, as its lines.
JoinQuery(hist, q) == (IF hist = <<>> THEN <<"">> ELSE hist) \o <<q>>

EmptyPrompt == [empty |-> TRUE, db_schemas |-> <<>>, question |-> <<>>]

RECURSIVE FullTableDdls(_)
FullTableDdls(schemas) ==
    IF schemas = <<>> THEN <<>>
    ELSE <<BuildTableDdl(Head(schemas), NoColumns, NoColumns).ddl>>
         \o FullTableDdls(Tail(schemas))

\* A prompt that is only built when there is query text.
BuildPromptNeedsQuery(q, schemas, check, hist) ==
    IF check.db_schemas = <<>> /\ q # ""
    THEN [empty |-> FALSE, db_schemas |-> FullTableDdls(schemas),
          question |-> JoinQuery(hist, q)]
    ELSE EmptyPrompt

\* prompt(): the rendered template when the evaluator's db_schemas is empty,
\* {} otherwise.
BuildPrompt(q, schemas, check, hist) ==
    IF check.db_schemas = <<>>
    THEN [empty |-> FALSE, db_schemas |-> FullTableDdls(schemas),
          question |-> JoinQuery(hist, q)]
    ELSE EmptyPrompt

----------------------------------------------------------------------------
(* construct_retrieval_results *)

\* One MatchingTable of the generator's structured output.
Match(n, cols) ==
    [table_name |-> n,
     table_contents |-> [chain_of_thought_reasoning |-> cols, columns |-> cols]]

\* replies[0]: JSON text (valid_json), an object with or without "results".
Reply(valid, has, res) == [valid_json |-> valid, has_results |-> has, results |-> res]

EmptyDict == [empty |-> TRUE, replies |-> <<>>]
Replies(r) == [empty |-> FALSE, replies |-> <<r>>]

\* reformated_json: table_name -> table_contents, a later entry of the same
\* name replacing an earlier one.
ReformatedJson(results) ==
    [n \in {results[i].table_name : i \in DOMAIN results} |->
        LET last == CHOOSE i \in DOMAIN results :
                        /\ results[i].table_name = n
                        /\ \A j \in DOMAIN results : results[j].table_name = n => j <= i
        IN results[last].table_contents]

\* The table loop of the pruned path, as (result, flags of the DDL build).
RECURSIVE PrunedTableBuilds(_, _)
PrunedTableBuilds(schemas, needed) ==
    IF schemas = <<>> THEN <<>>
    ELSE LET table_schema == Head(schemas)
         IN (IF table_schema.type = "TABLE" /\ table_schema.name \in DOMAIN needed
             THEN <<BuildTableDdl(table_schema,
                                  Columns(Range(needed[table_schema.name].columns)),
                                  Columns(DOMAIN needed))>>
             ELSE <<>>)
            \o PrunedTableBuilds(Tail(schemas), needed)

RECURSIVE BuildResults(_)
BuildResults(builds) ==
    IF builds = <<>> THEN <<>>
    ELSE <<Result(Head(builds).ddl.name, Head(builds).ddl)>> \o BuildResults(Tail(builds))

Returned(results, calc, metric, json) ==
    [raised |-> "", retrieval_results |-> results, has_calculated_field |-> calc,
     has_metric |-> metric, has_json_field |-> json]

Raised(e) ==
    [raised |-> e, retrieval_results |-> <<>>, has_calculated_field |-> FALSE,
     has_metric |-> FALSE, has_json_field |-> FALSE]

\* A pruned branch whose table loop does not look at the selection.
PrunedResultsAllTables(results, schemas, docs) ==
    LET needed == ReformatedJson(results)
    IN Returned(UnprunedTableResults(schemas) \o MetricViewResults(docs, DOMAIN needed),
                FALSE,
                \E i \in DOMAIN docs :
                    docs[i].name \in DOMAIN needed /\ docs[i].type = "METRIC",
                FALSE)

\* The pruned branch, once replies[0] decoded to an object holding "results".
PrunedResults(results, schemas, docs) ==
    LET needed == ReformatedJson(results)
        builds == PrunedTableBuilds(schemas, needed)
    IN Returned(BuildResults(builds) \o MetricViewResults(docs, DOMAIN needed),
                \E i \in DOMAIN builds : builds[i].has_calculated_field,
                \E i \in DOMAIN docs :
                    docs[i].name \in DOMAIN needed /\ docs[i].type = "METRIC",
                \E i \in DOMAIN builds : builds[i].has_json_field)

\* An else branch that hands on the results but not the evaluator's flags.
UnprunedResultsFlagsReset(check) == Returned(check.db_schemas, FALSE, FALSE, FALSE)

\* The else branch: the evaluator's results and flags as they are.
UnprunedResults(check) ==
    Returned(check.db_schemas, check.has_calculated_field, check.has_metric,
             check.has_json_field)

\* An assembler that falls back to the unpruned results on a bad reply.
ConstructRetrievalResultsFallback(check, filter, schemas, docs) ==
    IF ~filter.empty /\ filter.replies[1].valid_json /\ filter.replies[1].has_results
    THEN PrunedResults(filter.replies[1].results, schemas, docs)
    ELSE UnprunedResults(check)

\* An assembler whose pruned branch hands on the flags of the evaluator.
ConstructRetrievalResultsEvaluatorFlags(check, filter, schemas, docs) ==
    IF ~filter.empty
    THEN LET reply == filter.replies[1]
         IN IF ~reply.valid_json THEN Raised("JSONDecodeError")
            ELSE IF ~reply.has_results THEN Raised("KeyError")
            ELSE Returned(PrunedResults(reply.results, schemas, docs).retrieval_results,
                          check.has_calculated_field, check.has_metric,
                          check.has_json_field)
    ELSE UnprunedResults(check)

ConstructRetrievalResults(check, filter, schemas, docs) ==
    IF ~filter.empty
    THEN LET reply == filter.replies[1]
         IN IF ~reply.valid_json THEN Raised("JSONDecodeError")
            ELSE IF ~reply.has_results THEN Raised("KeyError")
            ELSE PrunedResults(reply.results, schemas, docs)
    ELSE UnprunedResults(check)

----------------------------------------------------------------------------
(* The external components *)

\* Table-description documents of the table_descriptions store.
TableDoc(n, ok) == [name |-> n, decodable |-> ok]

TableDocReplies ==
    {<<>>,
     <<TableDoc("t1", TRUE), TableDoc("bad", TRUE)>>,
     <<TableDoc("t2", TRUE)>>,
     <<TableDoc("t1", TRUE), TableDoc("t2", TRUE)>>,
     <<TableDoc("t1", TRUE), TableDoc("m1", TRUE), TableDoc("v1", TRUE)>>,
     <<TableDoc("t1", FALSE)>>}

\* A leaf {"field", "operator", "value"} of a filter, or an OR group of leaves.
Leaf(f, op, v) == [field |-> f, operator |-> op, value |-> v, conditions |-> <<>>]
OrGroup(cs) == [field |-> "", operator |-> "OR", value |-> <<>>, conditions |-> cs]

\* Whether a document named n passes the name conditions of a filter.
NameMatches(conds, n) ==
    \A i \in DOMAIN conds :
        /\ (conds[i].field = "name" /\ conds[i].operator = "in"
                => n \in Range(conds[i].value))
        /\ (conds[i].operator = "OR"
                => \E j \in DOMAIN conds[i].conditions :
                       conds[i].conditions[j].value = <<n>>)

\* What table_retriever.run can return under a filter.
TableRetrieverRun(conds) ==
    {r \in TableDocReplies : \A i \in DOMAIN r : NameMatches(conds, r[i].name)}

\* What dbschema_retriever.run can return under a filter: stored fragments of
\* the names asked for, in any order.
DbschemaRetrieverRun(conds) ==
    InjSeqs({f \in Fragments : NameMatches(conds, f.name)}, MaxFrags)

\* embedder.run(text): a non-empty dict holding the vector of the text.
EmbedderRun(text) == [empty |-> FALSE, embedding |-> <<Len(text)>>]

GeneratorReplies ==
    {Reply(FALSE, FALSE, <<>>),
     Reply(TRUE, FALSE, <<>>),
     Reply(TRUE, TRUE, <<>>),
     Reply(TRUE, TRUE, <<Match("t1", <<"id", "amt">>)>>),
     Reply(TRUE, TRUE, <<Match("t2", <<"c">>), Match("ghost", <<"id">>)>>),
     Reply(TRUE, TRUE, <<Match("t1", <<"j">>), Match("m1", <<"rev", "x">>),
                         Match("v1", <<>>)>>),
     Reply(TRUE, TRUE, <<Match("t1", <<"id">>), Match("t2", <<>>)>>)}

----------------------------------------------------------------------------
(* One request through the pipeline *)

VARIABLES
    query, histories, tables, project_id,       \* inputs of DbSchemaRetrieval.run
    enable_column_pruning, context_window_size,
    pc,                     \* the node to run next, "done" or "error"
    error,                  \* the exception that ended the request, "" if none
    calls,                  \* the calls made to external components, in order
    embedding, table_retrieval, dbschema_retrieval, construct_db_schemas,
    check_using_db_schemas_without_pruning, prompt, filter_columns_in_tables,
    construct_retrieval_results     \* the nodes' outputs

\* ChartService, per query_id.
VARIABLES
    chart_results,          \* self._chart_results, the TTL cache
    chart_pc,               \* where the chart() call of the query_id stands
    chart_request,          \* the ChartRequest the call was given
    chart_generation_result,    \* what the chart_generation pipeline returned
    chart_return,           \* the results dict chart() returned
    chart_written,          \* the statuses chart() stored, in order
    get_chart_result        \* the last response of get_chart_result()

chartVars == <<chart_results, chart_pc, chart_request, chart_generation_result,
               chart_return, chart_written, get_chart_result>>

\* The instructions indexing pipeline.
VARIABLES
    instructions_store,     \* the documents of the "instructions" store
    instructions_pc,        \* the node to run next, "idle", "done" or "error"
    instructions_request,   \* the arguments of the request under way
    instructions_count,     \* the requests begun so far
    instructions_calls,     \* the components the request has called, in order
    instructions_to_documents,  \* the output of to_documents
    instructions_embedding      \* the output of embedding

indexingVars == <<instructions_store, instructions_pc, instructions_request,
                  instructions_count, instructions_calls, instructions_to_documents,
                  instructions_embedding>>

\* What the retrieval pipeline leaves alone.
services == <<chartVars, indexingVars>>

inputs == <<query, histories, tables, project_id, enable_column_pruning,
            context_window_size>>
outputs == <<embedding, table_retrieval, dbschema_retrieval, construct_db_schemas,
             check_using_db_schemas_without_pruning, prompt,
             filter_columns_in_tables, construct_retrieval_results>>
vars == <<inputs, pc, error, calls, outputs, services>>

\* What the chart service and the indexing pipeline leave alone.
retrieval == <<inputs, pc, error, calls, outputs>>

Queries == {"", "q"}
Histories == {<<>>, <<"h">>}
TableLists == {<<"t1", "t2">>}
ProjectIds == {"", "p1"}
ContextWindows == {4, 100}

NoEmbedding == [empty |-> TRUE, embedding |-> <<>>]
NoCheck ==
    [db_schemas |-> <<>>, tokens |-> 0, has_calculated_field |-> FALSE,
     has_metric |-> FALSE, has_json_field |-> FALSE]
NoResult == [returned |-> FALSE, value |-> Returned(<<>>, FALSE, FALSE, FALSE)]

\* The query ids of the chart requests; a request gets an id of its own.
QueryIds == {"q1", "q2"}

\* ChartResultResponse: status, Optional response, Optional error (None is
\* the empty sequence); cached tells a cache entry from a missing key.
ChartError(code, message) == [code |-> code, message |-> message]

ChartResultResponse(status, response, err) ==
    [cached |-> TRUE, status |-> status, response |-> response, error |-> err]

Missing == [cached |-> FALSE, status |-> "", response |-> <<>>, error |-> <<>>]

\* post_process results of the chart_generation pipeline.
PostProcess(schema, reasoning, type) ==
    [chart_schema |-> schema, reasoning |-> reasoning, chart_type |-> type]

\* The output of the chart_generation pipeline, with or without its
\* "post_process" key.
GenerationResult(has, results) == [post_process |-> has, results |-> results]

NoGenerationResult == GenerationResult(FALSE, PostProcess("", "", ""))

\* The results dict of chart() before any branch filled it.
NotReturned ==
    [returned |-> FALSE, chart_result |-> <<>>, error_type |-> "", error_message |-> ""]

\* Instruction of the request; a default instruction has no question.
Instruction(id, question, is_default) ==
    [id |-> id, question |-> question, is_default |-> is_default]

\* The arguments of run() and of clean(); run() hands no delete_all on.
Request(entry, instructions, project, delete_all) ==
    [entry |-> entry, instructions |-> instructions, project_id |-> project,
     delete_all |-> delete_all]

NoRequest == Request("", <<>>, "", FALSE)

\* The output of a node that has not run, and the {} default of embedding.
NoDocuments == [given |-> FALSE, documents |-> <<>>]

IndexingInit ==
    /\ instructions_store = {}
    /\ instructions_pc = "idle"
    /\ instructions_request = NoRequest
    /\ instructions_count = 0
    /\ instructions_calls = <<>>
    /\ instructions_to_documents = NoDocuments
    /\ instructions_embedding = NoDocuments

ChartInit ==
    /\ chart_results = [q \in QueryIds |-> Missing]
    /\ chart_pc = [q \in QueryIds |-> "idle"]
    /\ chart_request = [q \in QueryIds |-> [data |-> FALSE]]
    /\ chart_generation_result = [q \in QueryIds |-> NoGenerationResult]
    /\ chart_return = [q \in QueryIds |-> NotReturned]
    /\ chart_written = [q \in QueryIds |-> <<>>]
    /\ get_chart_result = Missing

Init ==
    /\ query \in Queries
    /\ histories \in Histories
    /\ tables \in TableLists
    /\ project_id \in ProjectIds
    /\ enable_column_pruning \in BOOLEAN
    /\ context_window_size \in ContextWindows
    /\ pc = "embedding"
    /\ error = ""
    /\ calls = <<>>
    /\ embedding = NoEmbedding
    /\ table_retrieval = <<>>
    /\ dbschema_retrieval = <<>>
    /\ construct_db_schemas = <<>>
    /\ check_using_db_schemas_without_pruning = NoCheck
    /\ prompt = EmptyPrompt
    /\ filter_columns_in_tables = EmptyDict
    /\ construct_retrieval_results = NoResult
    /\ ChartInit
    /\ IndexingInit

\* A node raised: the request ends with that exception and no result.
\* A failure that leaves the node to run again.
FailRetrying(e) == pc' = pc /\ error' = e

Fail(e) == pc' = "error" /\ error' = e

Call(component, arg) == [component |-> component, arg |-> arg]

\* embedding(): the embedder is run on history and query when there is a
\* query; {} otherwise.
Embedding ==
    /\ pc = "embedding"
    /\ IF query # ""
       THEN /\ calls' = Append(calls, Call("embedder", JoinQuery(histories, query)))
            /\ \/ /\ embedding' = EmbedderRun(JoinQuery(histories, query))
                  /\ pc' = "table_retrieval"
                  /\ error' = error
               \/ /\ Fail("UpstreamUnavailable")
                  /\ embedding' = embedding
       ELSE /\ embedding' = NoEmbedding
            /\ pc' = "table_retrieval"
            /\ UNCHANGED <<calls, error>>
    /\ UNCHANGED <<services, inputs, table_retrieval, dbschema_retrieval, construct_db_schemas,
                   check_using_db_schemas_without_pruning, prompt,
                   filter_columns_in_tables, construct_retrieval_results>>

\* Filters that never restrict the table names.
TableFiltersNoNames(emb, project, names) ==
    <<Leaf("type", "==", <<"TABLE_DESCRIPTION">>)>>
    \o (IF project # "" THEN <<Leaf("project_id", "==", <<project>>)>> ELSE <<>>)

\* The filters table_retrieval() builds.
TableFilters(emb, project, names) ==
    <<Leaf("type", "==", <<"TABLE_DESCRIPTION">>)>>
    \o (IF project # "" THEN <<Leaf("project_id", "==", <<project>>)>> ELSE <<>>)
    \o (IF ~emb.empty THEN <<>> ELSE <<Leaf("name", "in", names)>>)

\* The query_embedding table_retrieval() passes.
TableQueryEmbedding(emb) == IF ~emb.empty THEN emb.embedding ELSE <<>>

TableRetrieval ==
    /\ pc = "table_retrieval"
    /\ LET conds == TableFilters(embedding, project_id, tables)
       IN /\ calls' = Append(calls,
                 Call("table_retriever",
                      [query_embedding |-> TableQueryEmbedding(embedding),
                       filters |-> conds]))
          /\ \/ /\ \E docs \in TableRetrieverRun(conds) : table_retrieval' = docs
                /\ pc' = "dbschema_retrieval"
                /\ error' = error
             \/ /\ Fail("UpstreamUnavailable")
                /\ table_retrieval' = table_retrieval
    /\ UNCHANGED <<services, inputs, embedding, dbschema_retrieval, construct_db_schemas,
                   check_using_db_schemas_without_pruning, prompt,
                   filter_columns_in_tables, construct_retrieval_results>>

RECURSIVE NameConditions(_)
NameConditions(docs) ==
    IF docs = <<>> THEN <<>>
    ELSE <<Leaf("name", "==", <<Head(docs).name>>)>> \o NameConditions(Tail(docs))

\* The filters dbschema_retrieval() builds.
DbschemaFilters(docs, project) ==
    <<Leaf("type", "==", <<"TABLE_SCHEMA">>), OrGroup(NameConditions(docs))>>
    \o (IF project # "" THEN <<Leaf("project_id", "==", <<project>>)>> ELSE <<>>)

DbschemaRetrieval ==
    /\ pc = "dbschema_retrieval"
    /\ \/ /\ ~AllDecodable(table_retrieval)
          /\ Fail("SyntaxError")
          /\ UNCHANGED <<calls, dbschema_retrieval, indexingVars>>
       \/ /\ AllDecodable(table_retrieval)
          /\ table_retrieval = <<>>
          /\ dbschema_retrieval' = <<>>
          /\ pc' = "construct_db_schemas"
          /\ UNCHANGED <<calls, error>>
       \/ /\ AllDecodable(table_retrieval)
          /\ table_retrieval # <<>>
          /\ LET conds == DbschemaFilters(table_retrieval, project_id)
             IN /\ calls' = Append(calls,
                       Call("dbschema_retriever",
                            [query_embedding |-> <<>>, filters |-> conds]))
                /\ \/ /\ \E docs \in DbschemaRetrieverRun(conds) :
                             dbschema_retrieval' = docs
                      /\ pc' = "construct_db_schemas"
                      /\ error' = error
                   \/ /\ Fail("UpstreamUnavailable")
                      /\ dbschema_retrieval' = dbschema_retrieval
    /\ UNCHANGED <<services, inputs, embedding, table_retrieval, construct_db_schemas,
                   check_using_db_schemas_without_pruning, prompt,
                   filter_columns_in_tables, construct_retrieval_results>>

\* construct_db_schemas(): ast.literal_eval raises on a document whose content
\* does not decode.
ConstructDbSchemasNode ==
    /\ pc = "construct_db_schemas"
    /\ \/ /\ ~AllDecodable(dbschema_retrieval)
          /\ Fail("SyntaxError")
          /\ construct_db_schemas' = construct_db_schemas
       \/ /\ AllDecodable(dbschema_retrieval)
          /\ construct_db_schemas' = ConstructDbSchemas(dbschema_retrieval)
          /\ pc' = "check_using_db_schemas_without_pruning"
          /\ error' = error
    /\ UNCHANGED <<services, inputs, calls, embedding, table_retrieval, dbschema_retrieval,
                   check_using_db_schemas_without_pruning, prompt,
                   filter_columns_in_tables, construct_retrieval_results>>

CheckNode ==
    /\ pc = "check_using_db_schemas_without_pruning"
    /\ check_using_db_schemas_without_pruning' =
           CheckUsingDbSchemasWithoutPruning(construct_db_schemas, dbschema_retrieval,
                                             enable_column_pruning, context_window_size)
    /\ pc' = "prompt"
    /\ UNCHANGED <<services, inputs, error, calls, embedding, table_retrieval, dbschema_retrieval,
                   construct_db_schemas, prompt, filter_columns_in_tables,
                   construct_retrieval_results>>

PromptNode ==
    /\ pc = "prompt"
    /\ prompt' = BuildPrompt(query, construct_db_schemas,
                             check_using_db_schemas_without_pruning, histories)
    /\ pc' = "filter_columns_in_tables"
    /\ UNCHANGED <<services, inputs, error, calls, embedding, table_retrieval, dbschema_retrieval,
                   construct_db_schemas, check_using_db_schemas_without_pruning,
                   filter_columns_in_tables, construct_retrieval_results>>

\* filter_columns_in_tables(): the generator is called when the prompt dict is
\* not empty; trace_cost hands on the dict of the (dict, generator_name) pair.
FilterColumnsInTables ==
    /\ pc = "filter_columns_in_tables"
    /\ IF ~prompt.empty
       THEN /\ calls' = Append(calls, Call("generator", prompt))
            /\ \/ /\ \E r \in GeneratorReplies : filter_columns_in_tables' = Replies(r)
                  /\ pc' = "construct_retrieval_results"
                  /\ error' = error
               \/ /\ Fail("UpstreamUnavailable")
                  /\ filter_columns_in_tables' = filter_columns_in_tables
       ELSE /\ filter_columns_in_tables' = EmptyDict
            /\ pc' = "construct_retrieval_results"
            /\ UNCHANGED <<calls, error>>
    /\ UNCHANGED <<services, inputs, embedding, table_retrieval, dbschema_retrieval,
                   construct_db_schemas, check_using_db_schemas_without_pruning, prompt,
                   construct_retrieval_results>>

ConstructRetrievalResultsNode ==
    /\ pc = "construct_retrieval_results"
    /\ LET out == ConstructRetrievalResults(check_using_db_schemas_without_pruning,
                                            filter_columns_in_tables,
                                            construct_db_schemas, dbschema_retrieval)
       IN \/ /\ out.raised # ""
             /\ Fail(out.raised)
             /\ construct_retrieval_results' = construct_retrieval_results
          \/ /\ out.raised = ""
             /\ construct_retrieval_results' = [returned |-> TRUE, value |-> out]
             /\ pc' = "done"
             /\ error' = error
    /\ UNCHANGED <<services, inputs, calls, embedding, table_retrieval, dbschema_retrieval,
                   construct_db_schemas, check_using_db_schemas_without_pruning, prompt,
                   filter_columns_in_tables>>

Next ==
    \/ Embedding
    \/ TableRetrieval
    \/ DbschemaRetrieval
    \/ ConstructDbSchemasNode
    \/ CheckNode
    \/ PromptNode
    \/ FilterColumnsInTables
    \/ ConstructRetrievalResultsNode

Spec == Init /\ [][Next]_vars

\* One request with its arguments fixed, the stores replying as in Spec: the
\* claims about construct_db_schemas alone, which reads nothing but the
\* documents, are checked over every document list without the other
\* arguments multiplying the states.
InitOneRequest ==
    /\ Init
    /\ query = "q"
    /\ histories = <<>>
    /\ project_id = ""
    /\ ~enable_column_pruning
    /\ context_window_size = 100

SpecOneRequest == InitOneRequest /\ [][Next]_vars

----------------------------------------------------------------------------
(* Claims about construct_db_schemas *)

HasFragment(docs, n, ty) == \E j \in DOMAIN docs : docs[j].name = n /\ docs[j].type = ty

HasFragmentOfType(ty) ==
    \E j \in DOMAIN dbschema_retrieval : dbschema_retrieval[j].type = ty

\* C1: every descriptor construct_db_schemas returns has a TABLE fragment and a
\* TABLE_COLUMNS fragment of its name among the documents: a table for which
\* only TABLE fragments, or only TABLE_COLUMNS fragments, arrived is not
\* returned.
C1_OnlyCompletedTables ==
    \A i \in DOMAIN construct_db_schemas :
        /\ HasFragment(dbschema_retrieval, construct_db_schemas[i].name, "TABLE")
        /\ HasFragment(dbschema_retrieval, construct_db_schemas[i].name, "TABLE_COLUMNS")

\* The orders in which n elements can be taken, for each length that occurs.
IndexOrders ==
    [n \in 0..MaxFrags |-> {q \in InjSeqs(1..n, n) : Len(q) = n}]

\* The sequences that hold the elements of s in another order.
Reorderings(s) == {[i \in DOMAIN s |-> s[p[i]]] : p \in IndexOrders[Len(s)]}

\* The columns of a descriptor as a multiset.
ColumnBag(cols) ==
    [c \in Range(cols) |-> Cardinality({i \in DOMAIN cols : cols[i] = c})]

\* The descriptors of a reassembly as a set, with and without static fields.
DescriptorSet(schemas) ==
    {[name |-> schemas[i].name, type |-> schemas[i].type,
      comment |-> schemas[i].comment, columns |-> ColumnBag(schemas[i].columns)] :
        i \in DOMAIN schemas}

NamedColumns(schemas) ==
    {[name |-> schemas[i].name, columns |-> ColumnBag(schemas[i].columns)] :
        i \in DOMAIN schemas}

JustReassembled == pc = "check_using_db_schemas_without_pruning"

\* C2 as stated: every permutation of the documents reassembles to the same
\* set of descriptors: same names, same static fields, same columns.
C2_AnyOrderSameDescriptors ==
    JustReassembled =>
        \A p \in Reorderings(dbschema_retrieval) :
            DescriptorSet(ConstructDbSchemas(p)) = DescriptorSet(construct_db_schemas)

OneTablePerName(docs) ==
    \A i, j \in DOMAIN docs :
        docs[i].type = "TABLE" /\ docs[j].type = "TABLE" /\ docs[i].name = docs[j].name
            => i = j

\* C2 amended: every permutation of the documents reassembles to the same
\* table names with the same columns per table (as a multiset); the static
\* fields agree too when no name has two TABLE fragments.
C2_AnyOrderSameColumns ==
    JustReassembled =>
        LET names == NamedColumns(construct_db_schemas)
            descriptors == DescriptorSet(construct_db_schemas)
            single == OneTablePerName(dbschema_retrieval)
        IN \A p \in Reorderings(dbschema_retrieval) :
               LET reordered == ConstructDbSchemas(p)
               IN /\ NamedColumns(reordered) = names
                  /\ single => DescriptorSet(reordered) = descriptors

\* A table reassembled from one TABLE and two TABLE_COLUMNS fragments.
C2_Witness ==
    /\ JustReassembled
    /\ {T1, C1x, C1y} \subseteq Range(dbschema_retrieval)
    /\ \E i \in DOMAIN construct_db_schemas :
           construct_db_schemas[i].name = "t1" /\ Len(construct_db_schemas[i].columns) = 3

----------------------------------------------------------------------------
(* Claims about check_using_db_schemas_without_pruning *)

CheckRan ==
    pc \in {"prompt", "filter_columns_in_tables", "construct_retrieval_results", "done"}

\* The unpruned candidate set: a DDL per reassembled table, then per METRIC
\* and VIEW document.
Candidates ==
    UnprunedTableResults(construct_db_schemas)
    \o MetricViewResults(dbschema_retrieval, DocNames(dbschema_retrieval))

\* Some reassembled table whose unpruned DDL build reports the flag.
SomeTableBuild(Flag(_)) ==
    \E i \in DOMAIN construct_db_schemas :
        Flag(BuildTableDdl(construct_db_schemas[i], NoColumns, NoColumns))

CalculatedFlag(build) == build.has_calculated_field
JsonFlag(build) == build.has_json_field

\* C3: with at least one candidate DDL the evaluator returns an empty
\* db_schemas list exactly when token_count > context_window_size or
\* enable_column_pruning is set; the token count and the three flags are those
\* of the full candidate set either way, and without pruning every candidate
\* is returned.
C3_BudgetDecision ==
    CheckRan =>
        LET check == check_using_db_schemas_without_pruning
            candidates == Candidates
            count == TokenCount(MapTableDdl(candidates))
            over == count > context_window_size \/ enable_column_pruning
        IN /\ check.tokens = count
           /\ candidates # <<>> => (check.db_schemas = <<>> <=> over)
           /\ ~over => check.db_schemas = candidates
           /\ check.has_metric = HasFragmentOfType("METRIC")
           /\ check.has_calculated_field = SomeTableBuild(CalculatedFlag)
           /\ check.has_json_field = SomeTableBuild(JsonFlag)

\* Over budget without forced pruning: nothing returned, count and flags kept.
C3_Witness ==
    /\ CheckRan
    /\ ~enable_column_pruning
    /\ check_using_db_schemas_without_pruning.tokens > context_window_size
    /\ check_using_db_schemas_without_pruning.db_schemas = <<>>
    /\ check_using_db_schemas_without_pruning.has_metric
    /\ check_using_db_schemas_without_pruning.has_json_field

----------------------------------------------------------------------------
(* Claims about filter_columns_in_tables and construct_retrieval_results *)

PrunedPath == ~filter_columns_in_tables.empty

TheReply == filter_columns_in_tables.replies[1]

ValidReply == PrunedPath /\ TheReply.valid_json /\ TheReply.has_results

SelectedNames == {TheReply.results[i].table_name : i \in DOMAIN TheReply.results}

ReassembledNames == {construct_db_schemas[i].name : i \in DOMAIN construct_db_schemas}

FinalResults == construct_retrieval_results.value.retrieval_results

\* The entries of the final results that the table loop appended: the ones
\* before the entries of the selected METRIC and VIEW documents.
TableEntries ==
    LET others == Cardinality({j \in DOMAIN dbschema_retrieval :
                     /\ dbschema_retrieval[j].name \in SelectedNames
                     /\ dbschema_retrieval[j].type \in {"METRIC", "VIEW"}})
    IN SubSeq(FinalResults, 1, Len(FinalResults) - others)

\* C4: on the pruned path the result holds a TABLE entry for a name exactly
\* when the name is a key of the selection and a reassembled descriptor of
\* that name exists; a selected name without a descriptor gives no entry and
\* no error.
C4_SelectedAndReassembled ==
    /\ pc = "done" /\ PrunedPath =>
           {TableEntries[i].table_name : i \in DOMAIN TableEntries}
               = SelectedNames \cap ReassembledNames
    /\ ValidReply => pc # "error"

\* Two reassembled tables, one of them selected beside a name that has no
\* descriptor.
C4_Witness ==
    /\ pc = "done"
    /\ PrunedPath
    /\ SelectedNames = {"t2", "ghost"}
    /\ ReassembledNames = {"t1", "t2"}
    /\ Len(FinalResults) = 1

GeneratorCalls == Cardinality({i \in DOMAIN calls : calls[i].component = "generator"})

InvalidReply == PrunedPath /\ (~TheReply.valid_json \/ ~TheReply.has_results)

\* C5: a reply that is not valid JSON, or that decodes to an object without
\* "results", ends the request in an error: no result is returned, neither
\* pruned nor the unpruned one, and the generator has been called once.
C5_InvalidReplyFails ==
    InvalidReply =>
        /\ pc \in {"construct_retrieval_results", "error"}
        /\ pc = "error" => error \in {"JSONDecodeError", "KeyError"}
        /\ ~construct_retrieval_results.returned
        /\ GeneratorCalls = 1

C5_Witness ==
    /\ pc = "error"
    /\ error = "KeyError"
    /\ InvalidReply
    /\ construct_db_schemas # <<>>

----------------------------------------------------------------------------
(* Claims about undecodable fragments and about when the generator is called *)

HasUndecodable == \E i \in DOMAIN dbschema_retrieval : ~dbschema_retrieval[i].decodable

\* C6 as stated: a schema fragment whose content cannot be decoded is not
\* fatal: the request does not end in the decoding error.
C6_UndecodableNotFatal == HasUndecodable => ~(pc = "error" /\ error = "SyntaxError")

\* C6 amended: a schema fragment whose content cannot be decoded is fatal:
\* construct_db_schemas raises on it, nothing is reassembled, no later node
\* runs (the generator is not called) and no result is returned.
C6_UndecodableIsFatal ==
    HasUndecodable =>
        /\ pc \in {"construct_db_schemas", "error"}
        /\ pc = "error" => error = "SyntaxError"
        /\ construct_db_schemas = <<>>
        /\ GeneratorCalls = 0
        /\ ~construct_retrieval_results.returned

\* The request failed on an undecodable fragment that arrived with the two
\* fragments of a complete table.
C6_Witness ==
    /\ pc = "error"
    /\ error = "SyntaxError"
    /\ {T1, C1x, Bad} \subseteq Range(dbschema_retrieval)

FilterRan == pc \in {"construct_retrieval_results", "done"}

EvaluatorOutput ==
    LET check == check_using_db_schemas_without_pruning
    IN Returned(check.db_schemas, check.has_calculated_field, check.has_metric,
                check.has_json_field)

OverBudget ==
    \/ check_using_db_schemas_without_pruning.tokens > context_window_size
    \/ enable_column_pruning

\* C7 as stated: the generator is called only when the evaluator required
\* pruning, and never without query text.
C7_GeneratorOnlyWhenRequired == GeneratorCalls > 0 => OverBudget /\ query # ""

\* C7 amended: the generator is called, once, exactly when the evaluator
\* returned an empty db_schemas list, that is when token_count >
\* context_window_size, enable_column_pruning is set or there is no candidate
\* at all, with or without query text; when the evaluator returned candidates
\* no call is made and the final result is the evaluator's output.
C7_GeneratorWhenNoCandidatesReturned ==
    LET check == check_using_db_schemas_without_pruning
    IN /\ GeneratorCalls > 0 => check.db_schemas = <<>> /\ GeneratorCalls = 1
       /\ FilterRan /\ check.db_schemas = <<>> => GeneratorCalls = 1
       /\ CheckRan => (check.db_schemas = <<>> <=> OverBudget \/ Candidates = <<>>)
       /\ pc = "done" /\ check.db_schemas # <<>> =>
              GeneratorCalls = 0 /\ construct_retrieval_results.value = EvaluatorOutput

\* No query text, no candidates and no pruning required, and the generator
\* was called all the same.
C7_Witness ==
    /\ pc = "done"
    /\ query = ""
    /\ ~OverBudget
    /\ dbschema_retrieval # <<>>
    /\ GeneratorCalls = 1

----------------------------------------------------------------------------
(* Claims about embedding and table_retrieval *)

CallsOf(component) == {i \in DOMAIN calls : calls[i].component = component}

\* C8: with an empty query the embedding step returns {} without calling the
\* embedder, and table retrieval runs with query_embedding [] and the added
\* filter name in tables; with a query it runs with the embedder's vector and
\* no filter on the name.
C8_EmptyQueryFiltersByName ==
    /\ query = "" => CallsOf("embedder") = {} /\ embedding.empty
    /\ query # "" /\ pc # "embedding" => Cardinality(CallsOf("embedder")) = 1
    /\ \A i \in CallsOf("table_retriever") :
           LET arg == calls[i].arg
               names == {k \in DOMAIN arg.filters : arg.filters[k].field = "name"}
           IN IF query = ""
              THEN /\ arg.query_embedding = <<>>
                   /\ \E k \in names : arg.filters[k] = Leaf("name", "in", tables)
              ELSE /\ arg.query_embedding # <<>>
                   /\ arg.query_embedding = embedding.embedding
                   /\ names = {}

C8_Witness ==
    /\ query = ""
    /\ histories # <<>>
    /\ pc = "construct_db_schemas"
    /\ dbschema_retrieval # <<>>

----------------------------------------------------------------------------
(* Claims about the final results *)

UnknownSpellings == {"unknown", "UNKNOWN", "Unknown"}

LineNames(ddl) == {ddl.lines[l].name : l \in DOMAIN ddl.lines}

\* C9: a column whose data_type is "unknown" in any letter case is in no DDL
\* of the final results, pruned or not and selected or not, while the
\* reassembled descriptor still holds it.
C9_UnknownColumnsNotInDdl ==
    /\ pc = "done" =>
           \A i \in DOMAIN FinalResults : \A j \in DOMAIN dbschema_retrieval :
               dbschema_retrieval[j].name = FinalResults[i].table_name =>
                   \A k \in DOMAIN dbschema_retrieval[j].columns :
                       dbschema_retrieval[j].columns[k].data_type \in UnknownSpellings
                           => dbschema_retrieval[j].columns[k].name
                                  \notin LineNames(FinalResults[i].table_ddl)
    /\ \A i \in DOMAIN construct_db_schemas : \A j \in DOMAIN dbschema_retrieval :
           /\ dbschema_retrieval[j].name = construct_db_schemas[i].name
           /\ dbschema_retrieval[j].type = "TABLE_COLUMNS"
           => Range(dbschema_retrieval[j].columns)
                  \subseteq Range(construct_db_schemas[i].columns)

\* The selection names the unknown column of t1, and the result holds t1 and
\* the metric m1, which has an unknown column too.
C9_Witness ==
    /\ pc = "done"
    /\ PrunedPath
    /\ \E i \in DOMAIN TheReply.results :
           /\ TheReply.results[i].table_name = "t1"
           /\ "amt" \in Range(TheReply.results[i].table_contents.columns)
    /\ \E i \in DOMAIN FinalResults :
           /\ FinalResults[i].table_name = "t1"
           /\ LineNames(FinalResults[i].table_ddl) = {"id"}

\* C10: when no pruning occurred the final results are the evaluator's
\* candidate results in their order, with the evaluator's three flags.
C10_UnprunedPassThrough ==
    pc = "done" /\ ~PrunedPath =>
        LET check == check_using_db_schemas_without_pruning
            out == construct_retrieval_results.value
        IN /\ construct_retrieval_results.returned
           /\ out.retrieval_results = check.db_schemas
           /\ out.has_calculated_field = check.has_calculated_field
           /\ out.has_metric = check.has_metric
           /\ out.has_json_field = check.has_json_field

C10_Witness ==
    /\ pc = "done"
    /\ ~PrunedPath
    /\ Len(FinalResults) >= 2
    /\ construct_retrieval_results.value.has_metric
    /\ construct_retrieval_results.value.has_json_field

----------------------------------------------------------------------------
(* Claims about the order of the final results *)

\* Whether the path taken includes the name: always without pruning, when
\* the selection has it as a key with pruning.
Included(n) == PrunedPath => n \in SelectedNames

IsMetricOrView(doc) == doc.type \in {"METRIC", "VIEW"} /\ Included(doc.name)

\* The METRIC and VIEW documents the path includes, in the order of the scan.
IncludedMetricViews == SelectSeq(dbschema_retrieval, IsMetricOrView)

\* The entries the table loop appended, and the entries after them.
TablePart == SubSeq(FinalResults, 1, Len(FinalResults) - Len(IncludedMetricViews))

MetricViewPart ==
    SubSeq(FinalResults, Len(FinalResults) - Len(IncludedMetricViews) + 1,
           Len(FinalResults))

\* Where the documents first mention a name.
FirstSeen(n) ==
    CHOOSE j \in DOMAIN dbschema_retrieval :
        /\ dbschema_retrieval[j].name = n
        /\ \A k \in DOMAIN dbschema_retrieval : dbschema_retrieval[k].name = n => j <= k

\* The tables come first, one entry per included reassembled table in the
\* order their names were first seen; the METRIC and VIEW entries follow, one
\* per included document in the order of the documents.
TablesThenMetricViews ==
    /\ Len(IncludedMetricViews) <= Len(FinalResults)
    /\ {TablePart[i].table_name : i \in DOMAIN TablePart}
           = {n \in ReassembledNames : Included(n)}
    /\ \A i, j \in DOMAIN TablePart :
           i < j => FirstSeen(TablePart[i].table_name) < FirstSeen(TablePart[j].table_name)
    /\ Len(MetricViewPart) = Len(IncludedMetricViews)
    /\ \A i \in DOMAIN MetricViewPart :
           MetricViewPart[i].table_name = IncludedMetricViews[i].name

NoNameTwice ==
    \A i, j \in DOMAIN FinalResults :
        FinalResults[i].table_name = FinalResults[j].table_name => i = j

\* C11 as stated: on both paths the final results hold the TABLE entries
\* first, in first-seen order, then the METRIC and VIEW entries in the order of
\* the scan, and no name occurs twice.
C11_OrderedAndNoNameTwice == pc = "done" => TablesThenMetricViews /\ NoNameTwice

\* C11 amended: on both paths the final results hold one entry per included
\* reassembled table, first and in first-seen order (no table name twice),
\* then one entry per included METRIC or VIEW document in the order of the
\* scan; a name those documents carry twice occurs twice.
C11_TablesFirstInFirstSeenOrder == pc = "done" => TablesThenMetricViews

\* Both tables selected, t2 seen first although its TABLE fragment came last.
C11_Witness ==
    /\ pc = "done"
    /\ PrunedPath
    /\ dbschema_retrieval = <<C2, T1, C1x, T2a>>
    /\ Len(FinalResults) = 2
    /\ FinalResults[1].table_name = "t2"
    /\ FinalResults[2].table_name = "t1"

----------------------------------------------------------------------------
(* Claims about the external calls of one request *)

\* The place of a component in the order embedding, table retrieval, schema
\* retrieval, pruning generator.
Rank(component) ==
    CASE component = "embedder" -> 1
      [] component = "table_retriever" -> 2
      [] component = "dbschema_retriever" -> 3
      [] component = "generator" -> 4

CallsInOrder ==
    \A i, j \in DOMAIN calls :
        i < j => Rank(calls[i].component) < Rank(calls[j].component)

\* The place of a node in the run, counted by the external call it makes or
\* follows.
Stage ==
    CASE pc = "embedding" -> 1
      [] pc = "table_retrieval" -> 2
      [] pc = "dbschema_retrieval" -> 3
      [] pc \in {"construct_db_schemas", "check_using_db_schemas_without_pruning",
                 "prompt", "filter_columns_in_tables"} -> 4
      [] OTHER -> 5

\* A component has been called only when the run has passed its node, which
\* the run reaches when the calls before it have returned.
EarlierCallsReturned ==
    \A i \in DOMAIN calls : pc # "error" => Rank(calls[i].component) < Stage

\* C12: the external calls of one request are made in the order embedder,
\* table retriever, schema retriever, generator, each at most once and each
\* after the earlier ones returned; after a failed call the request is in
\* error with no result, and no step (no later call, no retry) follows.
C12_CallsInOrderNoRetry ==
    /\ CallsInOrder
    /\ EarlierCallsReturned
    /\ error = "UpstreamUnavailable" =>
           /\ pc = "error"
           /\ calls # <<>>
           /\ ~construct_retrieval_results.returned
           /\ ~ENABLED Next

\* The generator failed after the three calls before it had returned.
C12_Witness ==
    /\ error = "UpstreamUnavailable"
    /\ Len(calls) = 4
    /\ calls[4].component = "generator"

----------------------------------------------------------------------------
(* Claims about the flags of the pruned path *)

\* Some reassembled table the selection includes whose DDL build, over the
\* columns selected for it, reports the flag.
SomeIncludedTableBuild(Flag(_)) ==
    LET needed == ReformatedJson(TheReply.results)
    IN \E i \in DOMAIN construct_db_schemas :
           LET table_schema == construct_db_schemas[i]
           IN /\ table_schema.type = "TABLE"
              /\ table_schema.name \in SelectedNames
              /\ Flag(BuildTableDdl(table_schema,
                                    Columns(Range(needed[table_schema.name].columns)),
                                    Columns(SelectedNames)))

\* The final results hold the entry of a METRIC document.
HasMetricEntry ==
    \E i \in DOMAIN MetricViewPart :
        /\ IncludedMetricViews[i].type = "METRIC"
        /\ MetricViewPart[i] = Result(IncludedMetricViews[i].name,
                                      BuildMetricDdl(IncludedMetricViews[i]))

\* C13: on the pruned path has_metric is true exactly when the final results
\* hold a METRIC entry, and has_calculated_field and has_json_field are true
\* exactly when the DDL build of some included TABLE reported the flag,
\* whatever flags the budget evaluator computed.
C13_PrunedFlagsRecomputed ==
    pc = "done" /\ PrunedPath =>
        LET value == construct_retrieval_results.value
        IN /\ value.has_metric = HasMetricEntry
           /\ value.has_calculated_field = SomeIncludedTableBuild(CalculatedFlag)
           /\ value.has_json_field = SomeIncludedTableBuild(JsonFlag)

\* The evaluator saw a metric and a JSON column; the selection leaves both
\* out, so the pruned result reports neither.
C13_Witness ==
    /\ pc = "done"
    /\ PrunedPath
    /\ check_using_db_schemas_without_pruning.has_metric
    /\ check_using_db_schemas_without_pruning.has_json_field
    /\ FinalResults # <<>>
    /\ ~construct_retrieval_results.value.has_metric
    /\ ~construct_retrieval_results.value.has_json_field

----------------------------------------------------------------------------
(* ChartService: chart(), stop_chart() and get_chart_result() *)

\* chart_type: Literal[...] of ChartResult.
ChartTypes == {"line", "bar", "pie", "grouped_bar", "stacked_bar", "area", "multi_line", ""}

\* What the chart_generation pipeline can hand back: no "post_process" key, no
\* chart at all, reasoning alone, a chart, a chart without reasoning, a chart
\* of a type ChartResult does not allow.
GenerationResults ==
    {NoGenerationResult,
     GenerationResult(TRUE, PostProcess("", "", "")),
     GenerationResult(TRUE, PostProcess("", "r", "")),
     GenerationResult(TRUE, PostProcess("s", "r", "bar")),
     GenerationResult(TRUE, PostProcess("s", "", "pie")),
     GenerationResult(TRUE, PostProcess("s", "r", "scatter"))}

\* The exceptions the body of the try statement can raise: a pipeline that
\* fails, a key its output lacks, a result ChartResult rejects.
Exceptions == {"ConnectionError", "KeyError", "ValidationError"}

\* An except clause that handles a missing key only.
CatchesKeyError(e) == e = "KeyError"

\* except Exception: every exception of the body is a subclass of Exception.
Catches(e) == e \in Exceptions

\* self._chart_results[query_id] = ... inside chart().
Store(q, response) ==
    /\ chart_results' = [chart_results EXCEPT ![q] = response]
    /\ chart_written' = [chart_written EXCEPT ![q] = Append(@, response.status)]

Return(q, chart_result, error_type, error_message) ==
    /\ chart_pc' = [chart_pc EXCEPT ![q] = "returned"]
    /\ chart_return' = [chart_return EXCEPT ![q] =
           [returned |-> TRUE, chart_result |-> chart_result,
            error_type |-> error_type, error_message |-> error_message]]

\* The except block: status "failed" with code OTHERS and str(e), then return;
\* an exception the clause does not handle leaves chart().
Except(q, e) ==
    IF Catches(e)
    THEN /\ Store(q, ChartResultResponse("failed", <<>>, <<ChartError("OTHERS", e)>>))
         /\ Return(q, <<>>, "OTHERS", e)
    ELSE /\ chart_pc' = [chart_pc EXCEPT ![q] = "raised"]
         /\ UNCHANGED <<chart_results, chart_written, chart_return>>

\* chart() up to its first await: "fetching" and the SQL executor when the
\* request has no data, otherwise "generating" and the chart_generation
\* pipeline.
Chart(q, data) ==
    /\ chart_pc[q] = "idle"
    /\ chart_request' = [chart_request EXCEPT ![q] = [data |-> data]]
    /\ IF ~data
       THEN /\ Store(q, ChartResultResponse("fetching", <<>>, <<>>))
            /\ chart_pc' = [chart_pc EXCEPT ![q] = "sql_executor"]
       ELSE /\ Store(q, ChartResultResponse("generating", <<>>, <<>>))
            /\ chart_pc' = [chart_pc EXCEPT ![q] = "chart_generation"]
    /\ UNCHANGED <<chart_generation_result, chart_return, get_chart_result, retrieval,
                   indexingVars>>

\* The SQL executor returns its rows, returns without them, or raises.
SqlExecutor(q) ==
    /\ chart_pc[q] = "sql_executor"
    /\ \/ /\ Store(q, ChartResultResponse("generating", <<>>, <<>>))
          /\ chart_pc' = [chart_pc EXCEPT ![q] = "chart_generation"]
          /\ UNCHANGED chart_return
       \/ \E e \in {"ConnectionError", "KeyError"} : Except(q, e)
    /\ UNCHANGED <<chart_request, chart_generation_result, get_chart_result, retrieval,
                   indexingVars>>

\* The chart_generation pipeline returns or raises; chart() stores "failed"
\* with NO_CHART when chart_schema and reasoning are both empty, "finished"
\* with the ChartResult otherwise, and returns.
ChartGeneration(q) ==
    /\ chart_pc[q] = "chart_generation"
    /\ \/ \E r \in GenerationResults :
            /\ chart_generation_result' = [chart_generation_result EXCEPT ![q] = r]
            /\ IF ~r.post_process THEN Except(q, "KeyError")
               ELSE IF r.results.chart_schema = "" /\ r.results.reasoning = ""
               THEN /\ Store(q, ChartResultResponse("failed", <<>>,
                            <<ChartError("NO_CHART", "chart generation failed")>>))
                    /\ Return(q, <<>>, "NO_CHART", "chart generation failed")
               ELSE IF r.results.chart_type \notin ChartTypes
               THEN Except(q, "ValidationError")
               ELSE /\ Store(q, ChartResultResponse("finished", <<r.results>>, <<>>))
                    /\ Return(q, <<r.results>>, "", "")
       \/ /\ Except(q, "ConnectionError")
          /\ UNCHANGED chart_generation_result
    /\ UNCHANGED <<chart_request, get_chart_result, retrieval, indexingVars>>

\* stop_chart(): the entry of the query_id becomes "stopped".
StopChart(q) ==
    /\ chart_results' = [chart_results EXCEPT ![q] = ChartResultResponse("stopped", <<>>, <<>>)]
    /\ UNCHANGED <<chart_pc, chart_request, chart_generation_result, chart_return,
                   chart_written, get_chart_result, retrieval, indexingVars>>

\* get_chart_result(): the cached entry, or "failed" with OTHERS when the
\* query_id has none.
GetChartResult(q) ==
    /\ get_chart_result' =
           IF chart_results[q].cached THEN chart_results[q]
           ELSE ChartResultResponse("failed", <<>>, <<ChartError("OTHERS", "is not found")>>)
    /\ UNCHANGED <<chart_results, chart_pc, chart_request, chart_generation_result,
                   chart_return, chart_written, retrieval, indexingVars>>

\* The TTL cache drops an entry whose time to live has passed.
Expire(q) ==
    /\ chart_results[q].cached
    /\ chart_results' = [chart_results EXCEPT ![q] = Missing]
    /\ UNCHANGED <<chart_pc, chart_request, chart_generation_result, chart_return,
                   chart_written, get_chart_result, retrieval, indexingVars>>

NextChart ==
    \/ \E q \in QueryIds, data \in BOOLEAN : Chart(q, data)
    \/ \E q \in QueryIds : SqlExecutor(q)
    \/ \E q \in QueryIds : ChartGeneration(q)
    \/ \E q \in QueryIds : StopChart(q)
    \/ \E q \in QueryIds : GetChartResult(q)
    \/ \E q \in QueryIds : Expire(q)

\* The chart service at work while the retrieval pipeline stands at the start
\* of one request.
SpecChart == InitOneRequest /\ [][NextChart]_vars

----------------------------------------------------------------------------
(* Claims about ChartService *)

\* The chart() call of the query_id is suspended at one of its awaits.
InFlight(q) == chart_pc[q] \in {"sql_executor", "chart_generation"}

\* C14: once stop_chart has stored "stopped" for a query_id, the stored
\* status stays "stopped" for as long as the entry is cached; a chart() call
\* of that query_id that resumes from an await never overwrites it.
C14_StoppedStaysStopped ==
    [][\A q \in QueryIds :
           /\ chart_results[q].status = "stopped"
           /\ InFlight(q)
           /\ chart_results'[q].cached
           => chart_results'[q].status = "stopped"]_vars

\* The statuses chart() stores, in the order it may store them.
StatusRank(status) ==
    CASE status = "fetching" -> 1
      [] status = "generating" -> 2
      [] status \in {"finished", "failed"} -> 3
      [] OTHER -> 0

Advancing(written) ==
    /\ \A i \in DOMAIN written : StatusRank(written[i]) > 0
    /\ \A i, j \in DOMAIN written :
           i < j => StatusRank(written[i]) < StatusRank(written[j])

\* What chart() has stored and handed back at the moment it returns.
TerminalAtReturn(entry, ret, generated) ==
    /\ entry.cached
    /\ ret.returned
    /\ \/ /\ entry.status = "finished"
          /\ entry.response = <<generated.results>>
          /\ generated.post_process
          /\ generated.results.chart_schema # "" \/ generated.results.reasoning # ""
          /\ entry.error = <<>>
          /\ ret.chart_result = entry.response
          /\ ret.error_type = ""
       \/ /\ entry.status = "failed"
          /\ entry.response = <<>>
          /\ entry.error = <<ChartError("NO_CHART", "chart generation failed")>>
          /\ generated.post_process
          /\ generated.results.chart_schema = ""
          /\ generated.results.reasoning = ""
          /\ ret.chart_result = <<>>
          /\ ret.error_type = "NO_CHART"
       \/ /\ entry.status = "failed"
          /\ entry.response = <<>>
          /\ \E e \in Exceptions : entry.error = <<ChartError("OTHERS", e)>>
          /\ ret.chart_result = <<>>
          /\ ret.error_type = "OTHERS"

----------------------------------------------------------------------------
(* The instructions indexing pipeline: run() and clean() *)

\* The requests one behaviour makes.
MaxRequests == 2

I1 == Instruction("i1", "how many?", FALSE)
I2 == Instruction("i2", "", TRUE)

InstructionLists == {<<>>, <<I1>>, <<I1, I2>>}

\* project_id: "" stands for every falsy value (None, "").
InstructionProjects == {"", "p1"}

\* A haystack Document; project_id "" stands for a meta without the key.
Document(id, instruction, project, embedded) ==
    [id |-> id,
     instruction_id |-> instruction.id,
     is_default |-> instruction.is_default,
     project_id |-> project,
     content |-> IF instruction.is_default
                 THEN "this is a global instruction, so no question is provided"
                 ELSE instruction.question,
     embedded |-> embedded]

\* InstructionsConverter.run: a document with a fresh uuid4 per instruction.
ConverterRun(instructions, project, request) ==
    [i \in DOMAIN instructions |-> Document(<<request, i>>, instructions[i], project, FALSE)]

\* The document embedder returns the documents with their embeddings.
DocumentEmbedderRun(documents) ==
    [i \in DOMAIN documents |-> [documents[i] EXCEPT !.embedded = TRUE]]

InstructionIds(instructions) == [i \in DOMAIN instructions |-> instructions[i].id]

Condition(field, operator, value) ==
    [field |-> field, operator |-> operator, value |-> value]

\* The filter of InstructionsCleaner.run: instruction_id in the ids, and
\* project_id == the project when one is given.
CleanerFilter(instruction_ids, project) ==
    <<Condition("instruction_id", "in", instruction_ids)>>
    \o (IF project # "" THEN <<Condition("project_id", "==", <<project>>)>> ELSE <<>>)

\* Whether a document meets one condition of the filter.
Holds(doc, condition) ==
    IF condition.field = "instruction_id"
    THEN doc.instruction_id \in Range(condition.value)
    ELSE doc.project_id \in Range(condition.value)

\* store.delete_documents(filter) under the AND of the conditions.
DeleteDocuments(store, filter) ==
    {doc \in store : ~(\A i \in DOMAIN filter : Holds(doc, filter[i]))}

\* AsyncDocumentWriter with DuplicatePolicy.OVERWRITE.
WriteDocuments(store, documents) ==
    {doc \in store : \A i \in DOMAIN documents : documents[i].id # doc.id}
    \cup Range(documents)

\* A clean() that deletes only when instruction ids are given.
CleanIssuedForIds(instruction_ids, delete_all) == instruction_ids # <<>>

\* clean(): if instruction_ids or delete_all.
CleanIssued(instruction_ids, delete_all) == instruction_ids # <<>> \/ delete_all

NoRequestUnderWay == instructions_pc \in {"idle", "done", "error"}

Begin(request, first) ==
    /\ NoRequestUnderWay
    /\ instructions_count < MaxRequests
    /\ instructions_count' = instructions_count + 1
    /\ instructions_request' = request
    /\ instructions_calls' = <<>>
    /\ instructions_to_documents' = NoDocuments
    /\ instructions_embedding' = NoDocuments
    /\ instructions_pc' = first
    /\ UNCHANGED <<instructions_store, retrieval, chartVars>>

\* Instructions.run(): executes "write" and with it the nodes it depends on.
InstructionsRun(instructions, project) ==
    Begin(Request("run", instructions, project, FALSE), "to_documents")

\* Instructions.clean(): calls clean() alone, embedding left at its default.
InstructionsClean(instructions, project, delete_all) ==
    Begin(Request("clean", instructions, project, delete_all), "clean")

CallComponent(component) == instructions_calls' = Append(instructions_calls, component)

\* to_documents().
ToDocuments ==
    /\ instructions_pc = "to_documents"
    /\ CallComponent("document_converter")
    /\ instructions_to_documents' =
           [given |-> TRUE,
            documents |-> ConverterRun(instructions_request.instructions,
                                       instructions_request.project_id,
                                       instructions_count)]
    /\ instructions_pc' = "embedding"
    /\ UNCHANGED <<instructions_store, instructions_request, instructions_count,
                   instructions_embedding, retrieval, chartVars>>

\* embedding(): the embedder returns the embedded documents or raises.
EmbeddingOfDocuments ==
    /\ instructions_pc = "embedding"
    /\ CallComponent("embedder")
    /\ \/ /\ instructions_embedding' =
                 [given |-> TRUE,
                  documents |-> DocumentEmbedderRun(instructions_to_documents.documents)]
          /\ instructions_pc' = "clean"
       \/ /\ instructions_pc' = "error"
          /\ UNCHANGED instructions_embedding
    /\ UNCHANGED <<instructions_store, instructions_request, instructions_count,
                   instructions_to_documents, retrieval, chartVars>>

\* clean(): the cleaner deletes under the filter or raises; write follows in
\* run().
Clean ==
    /\ instructions_pc = "clean"
    /\ LET instruction_ids == InstructionIds(instructions_request.instructions)
           after == IF instructions_request.entry = "run" THEN "write" ELSE "done"
       IN IF CleanIssued(instruction_ids, instructions_request.delete_all)
          THEN /\ CallComponent("cleaner")
               /\ \/ /\ instructions_store' =
                            DeleteDocuments(instructions_store,
                                CleanerFilter(instruction_ids,
                                              instructions_request.project_id))
                     /\ instructions_pc' = after
                  \/ /\ instructions_pc' = "error"
                     /\ UNCHANGED instructions_store
          ELSE /\ instructions_pc' = after
               /\ UNCHANGED <<instructions_calls, instructions_store>>
    /\ UNCHANGED <<instructions_request, instructions_count, instructions_to_documents,
                   instructions_embedding, retrieval, chartVars>>

\* write(): the writer stores the documents clean() handed on, or raises.
Write ==
    /\ instructions_pc = "write"
    /\ CallComponent("writer")
    /\ \/ /\ instructions_store' =
                 WriteDocuments(instructions_store, instructions_embedding.documents)
          /\ instructions_pc' = "done"
       \/ /\ instructions_pc' = "error"
          /\ UNCHANGED instructions_store
    /\ UNCHANGED <<instructions_request, instructions_count, instructions_to_documents,
                   instructions_embedding, retrieval, chartVars>>

NextIndexing ==
    \/ \E instructions \in InstructionLists, project \in InstructionProjects :
           InstructionsRun(instructions, project)
    \/ \E instructions \in InstructionLists, project \in InstructionProjects,
          delete_all \in BOOLEAN :
           InstructionsClean(instructions, project, delete_all)
    \/ ToDocuments
    \/ EmbeddingOfDocuments
    \/ Clean
    \/ Write

\* The indexing pipeline at work while the retrieval pipeline stands at the
\* start of one request.
SpecIndexing == InitOneRequest /\ [][NextIndexing]_vars

----------------------------------------------------------------------------
(* Claims about the instructions indexing pipeline *)

\* The place of a component in the order convert, embed, clean, write.
Step(component) ==
    CASE component = "document_converter" -> 1
      [] component = "embedder" -> 2
      [] component = "cleaner" -> 3
      [] component = "writer" -> 4

Called(made, component) == \E i \in DOMAIN made : made[i] = component

\* The stored documents a request's delete is about: those of its instruction
\* ids, within its project when it names one.
Addressed(store, request) ==
    {doc \in store :
        /\ \E i \in DOMAIN request.instructions :
               request.instructions[i].id = doc.instruction_id
        /\ request.project_id # "" => doc.project_id = request.project_id}

\* The clean node has just run to its end.
CleanReturned ==
    instructions_pc = "clean" /\ instructions_pc' \in {"write", "done"}

\* C16: the pipeline calls its components in the order convert, embed, clean,
\* write; the store changes only by the delete of the clean step, which
\* removes the documents of the given instruction ids (of the project, when
\* project_id is non-empty) after the embedder has returned and before the
\* writer is called, and by the write, which only adds documents; so a failed
\* embedding leaves the store as it was; and the delete is issued exactly
\* when there are instruction ids or delete_all is set.
C16_ConvertEmbedCleanWrite ==
    [][LET request == instructions_request
           made == instructions_calls'
       IN /\ \A i, j \in DOMAIN made : i < j => Step(made[i]) < Step(made[j])
          /\ instructions_pc \in {"to_documents", "embedding"}
                 => instructions_store' = instructions_store
          /\ instructions_store' # instructions_store =>
                 \/ /\ instructions_pc = "clean"
                    /\ made[Len(made)] = "cleaner"
                    /\ request.entry = "run" =>
                           instructions_embedding.given /\ ~Called(made, "writer")
                    /\ instructions_store'
                           = instructions_store \ Addressed(instructions_store, request)
                 \/ /\ instructions_pc = "write"
                    /\ made[Len(made)] = "writer"
                    /\ instructions_store \subseteq instructions_store'
                    /\ instructions_store' \ instructions_store
                           \subseteq Range(instructions_embedding.documents)
          /\ Called(made, "writer") =>
                 /\ instructions_embedding.given
                 /\ Addressed(instructions_store, request)
                        \subseteq Range(instructions_embedding.documents)
          /\ CleanReturned =>
                 (Called(made, "cleaner")
                      <=> request.instructions # <<>> \/ request.delete_all)]_vars

\* The second run() replaced the document the first one had written for i1.
C16_Witness ==
    /\ instructions_pc = "done"
    /\ instructions_count = 2
    /\ instructions_calls = <<"document_converter", "embedder", "cleaner", "writer">>
    /\ instructions_store = {Document(<<2, 1>>, I1, "", TRUE)}

====
